---- MODULE Spec2Model ----
(***************************************************************************)
(* Hover Time Tracker: the focus/session timer of the plugin, its          *)
(* persistence through the host's loadData/saveData, the status bar and    *)
(* the chart view.                                                         *)
(*                                                                         *)
(* A JavaScript object that may hold both date keys and the settings key   *)
(* "sortBy" is a record [days, sortBy]: days maps each date key present to *)
(* its bucket (document path -> milliseconds), sortBy is the value under   *)
(* the key "sortBy" or ABSENT when the object has no such key.             *)
(*                                                                         *)
(* Date keys are local calendar days, so the zone of the machine is part   *)
(* of the state. onload is three steps, one per return to the event loop.  *)
(* An instance that was unloaded keeps its 'active-leaf-change' handler,   *)
(* so after a restart the earlier instances act beside the current one.    *)
(***************************************************************************)
EXTENDS Integers, Sequences, FiniteSets, TLC

\* ---------------------------------------------------------------- bounds
MaxTicks == 2       \* instants after the epoch: 0, Step, .., MaxTicks * Step
Step == 30000       \* distance in ms between two instants of the clock
MaxPending == 2     \* writes in flight at once
MaxEarlier == 1     \* instances unloaded and replaced by a later instance

\* ------------------------------------------------------ program constants
MsPerMin == 60000
DayMs == 86400000

NULL == "null"
UNDEFINED == "undefined"
ABSENT == "absent"
Docs == {"notes/A.md", "B.md"}
SortKeys == {"note", "directory", "tag"}

\* The values Date.now() takes: instants within one minute of the epoch and
\* the instant a day later, which is on the next local date in every zone.
Instants == {k * Step : k \in 0..MaxTicks} \cup {DayMs}

\* The local time's offset from UTC in ms: New York (EST), UTC, Tokyo.
Zones == {-18000000, 0, 32400000}

VARIABLES
  tz,                \* the zone of the machine, one of Zones
  phase,             \* "constructed", "readSettings", "readLogs", "loaded", "unloaded"
  now,               \* Date.now()
  windowFocused,     \* the host window: TRUE after focus, FALSE after blur
  timeLogs,          \* this.timeLogs
  currentNote,       \* this.currentNote
  sessionStartTime,  \* this.sessionStartTime
  todayMin,          \* this.todayMin, the minutes shown by the status bar
  settings,          \* this.settings
  earlier,           \* the instances before this one; their leaf handler lives on
  store,             \* data.json: [present, obj]
  pending,           \* saveData calls whose write has not completed
  chart,             \* the option last given to the chart by onOpen
  watch,             \* TRUE in the runs that keep the reference below
  refLog,            \* sessions per the definition of a session
  refStart           \* start of the session in progress, -1 when none

vars == <<tz, phase, now, windowFocused, timeLogs, currentNote, sessionStartTime,
          todayMin, settings, earlier, store, pending, chart, watch, refLog, refStart>>

\* moment().format('YYYY-MM-DD'): the calendar day of t in local time
DateTable == <<"1969-12-31", "1970-01-01", "1970-01-02", "1970-01-03",
               "1970-01-04", "1970-01-05", "1970-01-06">>
DateKey(t) == DateTable[((t + tz) \div DayMs) + 2]
DateKeys == {DateTable[i] : i \in 1..Len(DateTable)}

\* file.basename / p.split('/').pop().replace(/\.md$/i, '')
Basename(p) == IF p = "notes/A.md" THEN "A" ELSE IF p = "B.md" THEN "B" ELSE p

\* ------------------------------------------------------------ JS objects
EmptyMap == [k \in {} |-> 0]
Put(m, k, v) == [x \in (DOMAIN m) \cup {k} |-> IF x = k THEN v ELSE m[x]]
EmptyObj == [days |-> EmptyMap, sortBy |-> ABSENT]
\* this.timeLogs[date] || {}
Bucket(obj, date) == IF date \in DOMAIN obj.days THEN obj.days[date] ELSE EmptyMap
\* this.timeLogs[date][note] || 0
Entry(obj, date, note) ==
  IF note \in DOMAIN Bucket(obj, date) THEN Bucket(obj, date)[note] ELSE 0

RECURSIVE SumOver(_, _)
SumOver(m, keys) ==
  IF keys = {} THEN 0
  ELSE LET k == CHOOSE x \in keys : TRUE IN m[k] + SumOver(m, keys \ {k})
\* Object.values(todayLog).reduce((a, b) => a + b, 0)
Total(m) == SumOver(m, DOMAIN m)

\* Math.round(ms / 60000): round half up
RoundMin(ms) == (2 * ms + MsPerMin) \div (2 * MsPerMin)

\* The plugin instance as one value, so that a handler is a function of it.
Self == [timeLogs |-> timeLogs, currentNote |-> currentNote,
         sessionStartTime |-> sessionStartTime, todayMin |-> todayMin,
         pending |-> pending]

\* ---------------------------------------------------------------- handlers
\* mutant: the time is filed under the date on which the session started
recordTimeAtStart(p, note, ms, t) ==
  LET date == DateKey(t - ms)
      bucket == Bucket(p.timeLogs, date)
      grown == Put(bucket, note, Entry(p.timeLogs, date, note) + ms)
  IN [p EXCEPT !.timeLogs = [p.timeLogs EXCEPT !.days = Put(p.timeLogs.days, date, grown)]]

recordTime(p, note, ms, t) ==
  LET date == DateKey(t)
      bucket == Bucket(p.timeLogs, date)
      grown == Put(bucket, note, Entry(p.timeLogs, date, note) + ms)
  IN [p EXCEPT !.timeLogs = [p.timeLogs EXCEPT !.days = Put(p.timeLogs.days, date, grown)]]

updateStatusBar(p, t) ==
  [p EXCEPT !.todayMin = RoundMin(Total(Bucket(p.timeLogs, DateKey(t))))]

saveData(p, obj) == [p EXCEPT !.pending = Append(p.pending, obj)]

\* mutant: a focus first records the time since the last start
onWindowFocusFlush(p, t) ==
  IF p.currentNote # NULL /\ p.sessionStartTime # 0
  THEN [recordTime(p, p.currentNote, t - p.sessionStartTime, t) EXCEPT !.sessionStartTime = t]
  ELSE IF p.currentNote # NULL THEN [p EXCEPT !.sessionStartTime = t] ELSE p

\* mutant: the start is set whether or not a document is active
onWindowFocusUnguarded(p, t) == [p EXCEPT !.sessionStartTime = t]

onWindowFocus(p, t) ==
  IF p.currentNote # NULL THEN [p EXCEPT !.sessionStartTime = t] ELSE p

\* mutant: the elapsed time is taken as start minus end
onWindowBlurReversed(p, t) ==
  IF p.currentNote # NULL /\ p.sessionStartTime # 0
  THEN LET p1 == recordTime(p, p.currentNote, p.sessionStartTime - t, t)
           p3 == updateStatusBar([p1 EXCEPT !.sessionStartTime = 0], t)
       IN saveData(p3, p3.timeLogs)
  ELSE p

\* mutant: the status bar is refreshed and the log saved on every blur
onWindowBlurAlways(p, t) ==
  IF p.currentNote # NULL /\ p.sessionStartTime # 0
  THEN LET p1 == recordTime(p, p.currentNote, t - p.sessionStartTime, t)
           p3 == updateStatusBar([p1 EXCEPT !.sessionStartTime = 0], t)
       IN saveData(p3, p3.timeLogs)
  ELSE saveData(updateStatusBar(p, t), p.timeLogs)

onWindowBlur(p, t) ==
  IF p.currentNote # NULL /\ p.sessionStartTime # 0
  THEN LET elapsed == t - p.sessionStartTime
           p1 == recordTime(p, p.currentNote, elapsed, t)
           p2 == [p1 EXCEPT !.sessionStartTime = 0]
           p3 == updateStatusBar(p2, t)
       IN saveData(p3, p3.timeLogs)
  ELSE p

\* mutant: a change to no document clears the active document first
onLeafChangeClearFirst(p, filePath, t) ==
  IF filePath = NULL
  THEN onWindowBlur([p EXCEPT !.currentNote = NULL], t)
  ELSE IF filePath # p.currentNote
       THEN onWindowFocus([onWindowBlur(p, t) EXCEPT !.currentNote = filePath], t)
       ELSE p

\* mutant: the new session is opened before the old one is closed
onLeafChangeFocusFirst(p, filePath, t) ==
  IF filePath = NULL
  THEN [onWindowBlur(p, t) EXCEPT !.currentNote = NULL]
  ELSE IF filePath # p.currentNote
       THEN onWindowFocus(onWindowBlur([p EXCEPT !.currentNote = filePath], t), t)
       ELSE p

onLeafChange(p, filePath, t) ==
  IF filePath = NULL
  THEN [onWindowBlur(p, t) EXCEPT !.currentNote = NULL]
  ELSE IF filePath # p.currentNote
       THEN onWindowFocus([onWindowBlur(p, t) EXCEPT !.currentNote = filePath], t)
       ELSE p

onTick(p, t) == onWindowFocus(onWindowBlur(p, t), t)

\* mutant: the log is saved without closing the session in progress
onunloadNoBlur(p, t) == saveData(p, p.timeLogs)

onunload(p, t) ==
  LET q == onWindowBlur(p, t) IN saveData(q, q.timeLogs)

\* Object.assign({}, DEFAULT_SETTINGS, stored || {})
loadSettings(stored) ==
  [days |-> stored.days,
   sortBy |-> IF stored.sortBy # ABSENT THEN stored.sortBy ELSE "note"]

\* mutant: the log is read from a key the stored object does not have
loadDataNested == EmptyObj

\* (await this.loadData()) as an object, {} when there is none
loadData == IF store.present THEN store.obj ELSE EmptyObj

\* prepare data + option of HoverTimeView.onOpen
onOpen(p, t) ==
  LET data == Bucket(p.timeLogs, DateKey(t))
  IN [open |-> TRUE,
      data |-> [q \in DOMAIN data |-> [name |-> Basename(q), value |-> RoundMin(data[q])]],
      center |-> p.todayMin]

\* ------------------------------------------------------------- reference
\* A session per the glossary: d is the active document and the window is
\* focused. refStart/refLog follow that definition, not the handlers; the
\* periodic checkpoint closes the session in progress and opens the next.
\* The reference is kept in the runs that start with watch set.
RefOpen(note, focused) == note # NULL /\ focused
RefClose(t) ==
  IF watch /\ refStart # -1 /\ currentNote # NULL
  THEN LET date == DateKey(t)
           bucket == IF date \in DOMAIN refLog THEN refLog[date] ELSE EmptyMap
           old == IF currentNote \in DOMAIN bucket THEN bucket[currentNote] ELSE 0
       IN Put(refLog, date, Put(bucket, currentNote, old + (t - refStart)))
  ELSE refLog

\* ------------------------------------------------------------------ state
\* A handler runs only while the writes it leaves in flight fit the bound.
Fits(p) == Len(p.pending) <= MaxPending

Commit(p) ==
  /\ timeLogs' = p.timeLogs
  /\ currentNote' = p.currentNote
  /\ sessionStartTime' = p.sessionStartTime
  /\ todayMin' = p.todayMin
  /\ pending' = p.pending

InitStores ==
  { [present |-> FALSE, obj |-> EmptyObj],
    [present |-> TRUE, obj |-> [days |-> EmptyMap, sortBy |-> "tag"]],
    [present |-> TRUE,
     obj |-> [days |-> Put(EmptyMap, DateKey(0), Put(EmptyMap, "B.md", Step)),
              sortBy |-> ABSENT]] }

ClosedChart == [open |-> FALSE, data |-> EmptyMap, center |-> 0]

\* The fields of an instance as its constructor leaves them.
Constructed == [timeLogs |-> EmptyObj, currentNote |-> NULL,
                sessionStartTime |-> 0, todayMin |-> 0, pending |-> <<>>]

\* The handler of every earlier instance runs, oldest first, on the same
\* event; their writes go to the one data.json.
RECURSIVE LeafEarlier(_, _, _, _, _)
LeafEarlier(insts, i, pend, filePath, t) ==
  IF i > Len(insts) THEN [earlier |-> insts, pending |-> pend]
  ELSE LET q == onLeafChange([insts[i] EXCEPT !.pending = pend], filePath, t)
       IN LeafEarlier([insts EXCEPT ![i] = [q EXCEPT !.pending = <<>>]],
                      i + 1, q.pending, filePath, t)

Init ==
  /\ tz \in Zones
  /\ phase = "constructed"
  /\ now = 0
  /\ windowFocused = TRUE
  /\ timeLogs = EmptyObj
  /\ currentNote = NULL
  /\ sessionStartTime = 0
  /\ todayMin = 0
  /\ settings = UNDEFINED
  /\ earlier = <<>>
  /\ store \in InitStores
  /\ pending = <<>>
  /\ chart = ClosedChart
  /\ watch \in BOOLEAN
  /\ refLog = EmptyMap
  /\ refStart = -1

\* The host calls onload on a new instance: loadSettings issues its read
\* and onload returns to the event loop. After a teardown the instance
\* before it stays behind with its leaf handler.
Onload ==
  /\ phase \in {"constructed", "unloaded"}
  /\ phase = "unloaded" => Len(earlier) < MaxEarlier
  /\ earlier' = IF phase = "unloaded"
                THEN Append(earlier, [Self EXCEPT !.pending = <<>>])
                ELSE earlier
  /\ Commit([Constructed EXCEPT !.pending = pending])
  /\ settings' = UNDEFINED
  /\ phase' = "readSettings"
  /\ refLog' = EmptyMap
  /\ refStart' = -1
  /\ UNCHANGED <<tz, now, windowFocused, store, chart, watch>>

\* The read of loadSettings resolves; onload issues its own read.
LoadSettings ==
  /\ phase = "readSettings"
  /\ settings' = loadSettings(loadData)
  /\ phase' = "readLogs"
  /\ UNCHANGED <<tz, now, windowFocused, timeLogs, currentNote, sessionStartTime,
                 todayMin, earlier, store, pending, chart, watch, refLog, refStart>>

\* The read of onload resolves: the log is what data.json holds now, the
\* view, the handlers and the interval are registered, the status bar is set.
Load ==
  /\ phase = "readLogs"
  /\ LET stored == loadData
     IN /\ Commit(updateStatusBar([Self EXCEPT !.timeLogs = stored], now))
        /\ refLog' = IF watch THEN stored.days ELSE refLog
  /\ refStart' = -1
  /\ phase' = "loaded"
  /\ chart' = ClosedChart
  /\ UNCHANGED <<tz, now, windowFocused, settings, earlier, store, watch>>

Advance ==
  /\ \E t \in Instants : t > now /\ now' = t
  /\ UNCHANGED <<tz, phase, windowFocused, timeLogs, currentNote, sessionStartTime,
                 todayMin, settings, earlier, store, pending, chart, watch, refLog, refStart>>

Focus ==
  /\ phase = "loaded"
  /\ Commit(onWindowFocus(Self, now))
  /\ windowFocused' = TRUE
  /\ refStart' = IF watch /\ refStart = -1 /\ RefOpen(currentNote, TRUE)
                 THEN now ELSE refStart
  /\ UNCHANGED <<tz, phase, now, settings, earlier, store, chart, watch, refLog>>

Blur ==
  /\ phase = "loaded"
  /\ Fits(onWindowBlur(Self, now))
  /\ Commit(onWindowBlur(Self, now))
  /\ windowFocused' = FALSE
  /\ refLog' = RefClose(now)
  /\ refStart' = -1
  /\ UNCHANGED <<tz, phase, now, settings, earlier, store, chart, watch>>

\* The 'active-leaf-change' handler is registered with workspace.on and is
\* not released by unload: the event runs the handler of every instance
\* that has registered one, in the order of registration.
LeafChange(filePath) ==
  LET live == phase \in {"loaded", "unloaded"}
      before == LeafEarlier(earlier, 1, pending, filePath, now)
      mine == [Self EXCEPT !.pending = before.pending]
      after == IF live THEN onLeafChange(mine, filePath, now) ELSE mine
  IN /\ live \/ earlier # <<>>
     /\ Fits(after)
     /\ Commit(after)
     /\ earlier' = before.earlier
     /\ refLog' = IF live /\ filePath # currentNote THEN RefClose(now) ELSE refLog
     /\ refStart' = IF ~live \/ filePath = currentNote THEN refStart
                    ELSE IF watch /\ RefOpen(filePath, windowFocused /\ phase = "loaded")
                         THEN now ELSE -1
     /\ UNCHANGED <<tz, phase, now, windowFocused, settings, store, chart, watch>>

Tick ==
  /\ phase = "loaded"
  /\ Fits(onTick(Self, now))
  /\ Commit(onTick(Self, now))
  /\ refLog' = RefClose(now)
  /\ refStart' = IF refStart # -1 THEN now ELSE refStart
  /\ UNCHANGED <<tz, phase, now, windowFocused, settings, earlier, store, chart, watch>>

SaveSettings(value) ==
  /\ phase = "loaded"
  /\ Len(pending) < MaxPending
  /\ settings' = [settings EXCEPT !.sortBy = value]
  /\ pending' = Append(pending, settings')
  /\ UNCHANGED <<tz, phase, now, windowFocused, timeLogs, currentNote, sessionStartTime,
                 todayMin, earlier, store, chart, watch, refLog, refStart>>

OpenView ==
  /\ phase = "loaded"
  /\ chart' = onOpen(Self, now)
  /\ UNCHANGED <<tz, phase, now, windowFocused, timeLogs, currentNote, sessionStartTime,
                 todayMin, settings, earlier, store, pending, watch, refLog, refStart>>

\* HoverTimeView.onClose: the panel is closed and its container emptied.
CloseView ==
  /\ phase = "loaded"
  /\ chart.open
  /\ chart' = ClosedChart
  /\ UNCHANGED <<tz, phase, now, windowFocused, timeLogs, currentNote, sessionStartTime,
                 todayMin, settings, earlier, store, pending, watch, refLog, refStart>>

Unload ==
  /\ phase = "loaded"
  /\ Fits(onunload(Self, now))
  /\ Commit(onunload(Self, now))
  /\ phase' = "unloaded"
  /\ refLog' = RefClose(now)
  /\ refStart' = -1
  /\ chart' = ClosedChart
  /\ UNCHANGED <<tz, now, windowFocused, settings, earlier, store, watch>>

\* The host completes the oldest write: the snapshot replaces data.json.
WriteComplete ==
  /\ pending # <<>>
  /\ store' = [present |-> TRUE, obj |-> Head(pending)]
  /\ pending' = Tail(pending)
  /\ UNCHANGED <<tz, phase, now, windowFocused, timeLogs, currentNote, sessionStartTime,
                 todayMin, settings, earlier, chart, watch, refLog, refStart>>

\* One run of the plugin on a store that holds nothing yet: the timer and
\* the status bar.
InitFresh == Init /\ ~store.present /\ ~watch

Next ==
  \/ Onload
  \/ LoadSettings
  \/ Load
  \/ Advance
  \/ Focus
  \/ Blur
  \/ \E f \in Docs \cup {NULL} : LeafChange(f)
  \/ Tick
  \/ WriteComplete

Spec == InitFresh /\ [][Next]_vars

\* The same run beside the reference.
InitWatched == Init /\ ~store.present /\ watch

SpecRef == InitWatched /\ [][Next]_vars

\* The same run with the chart view.
ViewNext ==
  \/ Next
  \/ OpenView
  \/ CloseView

SpecView == InitFresh /\ [][ViewNext]_vars

\* The plugin across restarts, with the settings tab and one document: what
\* reaches data.json and what a later load makes of it. Every option of the
\* dropdown is saved the same way; the runs choose "tag".
StoreNext ==
  \/ Onload
  \/ LoadSettings
  \/ Load
  \/ Advance
  \/ Blur
  \/ \E f \in {"notes/A.md", NULL} : LeafChange(f)
  \/ SaveSettings("tag")
  \/ Unload
  \/ WriteComplete

InitStored == Init /\ ~watch

SpecStore == InitStored /\ [][StoreNext]_vars

\* Restarts on a store that holds nothing at first: teardown, the load that
\* follows it and the earlier instances left behind.
RestartNext ==
  \/ Onload
  \/ LoadSettings
  \/ Load
  \/ Advance
  \/ \E f \in {"notes/A.md", NULL} : LeafChange(f)
  \/ Unload
  \/ WriteComplete

SpecRestart == InitFresh /\ [][RestartNext]_vars

\* One run from load to teardown, with the events that outlive it.
LifeNext ==
  \/ Onload /\ phase = "constructed"
  \/ LoadSettings
  \/ Load
  \/ Advance
  \/ Focus
  \/ Blur
  \/ \E f \in Docs \cup {NULL} : LeafChange(f)
  \/ Tick
  \/ Unload
  \/ WriteComplete

SpecLife == InitFresh /\ [][LifeNext]_vars

TypeOK ==
  /\ tz \in Zones
  /\ phase \in {"constructed", "readSettings", "readLogs", "loaded", "unloaded"}
  /\ Len(earlier) <= MaxEarlier
  /\ now \in Instants
  /\ currentNote \in Docs \cup {NULL}
  /\ Len(pending) <= MaxPending

\* ------------------------------------------------------------------ claims
RefEntry(date, note) ==
  IF date \in DOMAIN refLog /\ note \in DOMAIN refLog[date] THEN refLog[date][note] ELSE 0
Today == DateKey(now)
Timer == <<timeLogs, currentNote, sessionStartTime>>

\* C1: for every document d and date key k, log[k][d] is the sum of the
\* lengths of the completed sessions of d that ended on k, a session being a
\* maximal interval in which d is the active document and the window is
\* focused.
C1_LogIsSumOfSessions ==
  phase = "loaded" =>
    \A k \in DateKeys, d \in Docs : Entry(timeLogs, k, d) = RefEntry(k, d)

\* C2: a session is in progress only while the most recent window event
\* was a focus.
C2_SessionOnlyWhileFocused ==
  (phase = "loaded" /\ sessionStartTime # 0) => windowFocused

\* C3: a change from document A, whose session started at s, to another
\* document B at instant t adds t - s to A's entry for the date of t, leaves
\* B's entry alone, and leaves B active with a session started at t.
C3_SwitchClosesThenOpens ==
  [][\A b \in Docs :
       (LeafChange(b) /\ currentNote # NULL /\ currentNote # b /\ sessionStartTime # 0)
       => /\ Entry(timeLogs', Today, currentNote)
               = Entry(timeLogs, Today, currentNote) + (now - sessionStartTime)
          /\ Entry(timeLogs', Today, b) = Entry(timeLogs, Today, b)
          /\ currentNote' = b
          /\ sessionStartTime' = now]_vars

\* C3 witness: B is active with a session started at this instant, and A's
\* entry for today holds the time of the session the switch closed.
C3_Witness ==
  /\ phase = "loaded"
  /\ currentNote = "B.md"
  /\ sessionStartTime = now
  /\ Entry(timeLogs, Today, "notes/A.md") = Step
  /\ Entry(timeLogs, Today, "B.md") = 0
  /\ Len(pending) = 1

\* C4: a session that starts at s, for every s >= 0, and is ended by a blur
\* at e >= s adds exactly e - s to the active document's entry for today.
C4_BlurAddsElapsed ==
  [][(Blur /\ currentNote # NULL /\ refStart # -1 /\ sessionStartTime = refStart)
     => Entry(timeLogs', Today, currentNote)
          = Entry(timeLogs, Today, currentNote) + (now - refStart)]_vars

\* C5: a blur with no session in progress changes neither the log, the
\* active document, the session start, the status bar nor the persisted
\* snapshot, and issues no write.
C5_BlurWithoutSessionIsNoOp ==
  [][(Blur /\ (currentNote = NULL \/ sessionStartTime = 0))
     => UNCHANGED <<timeLogs, currentNote, sessionStartTime, todayMin, store, pending>>]_vars

\* C5 witness: the window has been blurred with a document active and no
\* session start set; nothing was recorded and nothing was written.
C5_Witness ==
  /\ phase = "loaded"
  /\ ~windowFocused
  /\ currentNote # NULL
  /\ sessionStartTime = 0
  /\ now > 0
  /\ timeLogs = EmptyObj
  /\ pending = <<>>
  /\ ~store.present

\* C6: in every state after load, the status-bar minutes are the rounded
\* total of the log's bucket for the current date, also after the date
\* advances without a session ending.
C6_StatusBarIsTodayTotal ==
  phase = "loaded" => todayMin = RoundMin(Total(Bucket(timeLogs, Today)))

\* C7: opening the chart view shows one slice per document of the current
\* date's bucket, valued round(entry / 60000), and a center label of
\* round(sum of that bucket / 60000); the log and the timer are unchanged.
C7_ChartShowsToday ==
  [][OpenView
     => LET data == Bucket(timeLogs, Today)
        IN /\ DOMAIN chart'.data = DOMAIN data
           /\ \A q \in DOMAIN data : chart'.data[q].value = RoundMin(data[q])
           /\ chart'.center = RoundMin(Total(data))
           /\ UNCHANGED Timer]_vars

\* The instance that was torn down before this one was constructed.
Previous == earlier[Len(earlier)]

\* C8: a load from a store that holds no blob yields the empty log, and the
\* load of a restart, once every write issued has completed, yields exactly
\* the log of the instance that shut down before it: always at the first
\* restart, and at a later one when data.json holds that log.
C8_LoadRoundTrips ==
  [][Load => /\ ~store.present => timeLogs' = EmptyObj
             /\ (/\ earlier # <<>>
                 /\ pending = <<>>
                 /\ Len(earlier) = 1 \/ store.obj = Previous.timeLogs)
                => timeLogs' = Previous.timeLogs]_vars

\* C8 witness: a restarted instance has just loaded the log of the run
\* before it, which holds an entry that run recorded and saved.
C8_Witness ==
  /\ phase = "loaded"
  /\ earlier # <<>>
  /\ timeLogs = Previous.timeLogs
  /\ Entry(timeLogs, DateKey(0), "notes/A.md") = Step
  /\ store.obj = timeLogs
  /\ currentNote = NULL
  /\ pending = <<>>

\* C9: every snapshot the program writes has only date keys at its top
\* level, whichever operation issues the write.
C9_SnapshotsHaveOnlyDateKeys ==
  \A i \in 1..Len(pending) : pending[i].sortBy = ABSENT

\* C10: a load that finds no blob, or a blob that is not of the Daily Time
\* Log shape, leaves the in-memory log empty.
C10_InvalidBlobLoadsEmpty ==
  [][(Load /\ (~store.present \/ store.obj.sortBy # ABSENT))
     => timeLogs' = EmptyObj]_vars

SessionOpen == currentNote # NULL /\ sessionStartTime # 0
Elapsed == now - sessionStartTime

\* C11: teardown closes the session in progress and folds it into the log,
\* then issues a write of the full log; when the last write issued has
\* completed, the persisted snapshot is the in-memory log (no instance
\* before this one being left to write its own log after it).
C11_TeardownFoldsThenSaves ==
  [][/\ Unload
        => /\ sessionStartTime' = 0
           /\ SessionOpen => Entry(timeLogs', Today, currentNote)
                               = Entry(timeLogs, Today, currentNote) + Elapsed
           /\ pending' # <<>>
           /\ pending'[Len(pending')] = timeLogs'
     /\ (WriteComplete /\ phase = "unloaded" /\ pending' = <<>> /\ earlier = <<>>)
        => store'.present /\ store'.obj = timeLogs]_vars

\* C11 witness: teardown has closed a session of Step ms, every write has
\* completed and data.json holds the log with that session.
C11_Witness ==
  /\ phase = "unloaded"
  /\ earlier = <<>>
  /\ pending = <<>>
  /\ sessionStartTime = 0
  /\ currentNote = "notes/A.md"
  /\ Entry(timeLogs, Today, "notes/A.md") = Step
  /\ store.present
  /\ store.obj = timeLogs

\* C12: after teardown no event delivered by the host changes the log, the
\* active document or the session start, or issues a write.
C12_NoHandlerAfterUnload ==
  [][(phase = "unloaded" /\ phase' = "unloaded")
     => /\ UNCHANGED <<timeLogs, currentNote, sessionStartTime>>
        /\ Len(pending') <= Len(pending)]_vars

\* C13: a periodic tick leaves a session open exactly if one was open before
\* it; an open session started at s has t - s added to the active document's
\* entry and restarts at t, and with none open the log and the session start
\* are unchanged.
C13_TickKeepsSessionState ==
  [][Tick
     => /\ (currentNote' # NULL /\ sessionStartTime' # 0) <=> SessionOpen
        /\ SessionOpen
           => /\ Entry(timeLogs', Today, currentNote)
                   = Entry(timeLogs, Today, currentNote) + Elapsed
              /\ sessionStartTime' = now
        /\ ~SessionOpen => UNCHANGED <<timeLogs, sessionStartTime>>]_vars

\* C14: whenever a session has ended since load and no write is in flight,
\* the persisted snapshot is the in-memory log.
C14_StoreIsLogWhenQuiet ==
  (phase = "loaded" /\ pending = <<>> /\ timeLogs.days # settings.days)
    => (store.present /\ store.obj = timeLogs)

\* C15: a session end at t on document d with start s adds t - s to
\* log[date(t)][d], creating the entry when absent, changes no other entry
\* of any bucket, keeps the active document and clears the session start.
C15_SessionEndChangesOneEntry ==
  [][/\ (SessionOpen /\ Len(pending') > Len(pending))
        => /\ \A k \in DateKeys, d \in Docs :
                Entry(timeLogs', k, d)
                  = Entry(timeLogs, k, d)
                    + (IF k = Today /\ d = currentNote THEN Elapsed ELSE 0)
           /\ currentNote \in DOMAIN Bucket(timeLogs', Today)
           /\ \A k \in DOMAIN timeLogs.days :
                k \in DOMAIN timeLogs'.days
                /\ DOMAIN timeLogs.days[k] \subseteq DOMAIN timeLogs'.days[k]
           /\ timeLogs'.sortBy = timeLogs.sortBy
     /\ (Blur /\ SessionOpen)
        => /\ Len(pending') > Len(pending)
           /\ currentNote' = currentNote
           /\ sessionStartTime' = 0]_vars

\* C15 witness: a session that began on the first day has ended on the
\* second; its time is under the second date and the first has no bucket.
C15_Witness ==
  /\ phase = "loaded"
  /\ now = DayMs
  /\ ~windowFocused
  /\ sessionStartTime = 0
  /\ currentNote = "notes/A.md"
  /\ Entry(timeLogs, Today, "notes/A.md") = DayMs - Step
  /\ DOMAIN timeLogs.days = {Today}

\* C16: after load the log changes only in a step that ends a session, by
\* that session's elapsed time; a focus event leaves the log unchanged.
C16_LogChangesOnlyAtSessionEnd ==
  [][/\ (phase = "loaded" /\ timeLogs' # timeLogs)
        => /\ SessionOpen
           /\ sessionStartTime' \in {0, now}
           /\ Entry(timeLogs', Today, currentNote)
                = Entry(timeLogs, Today, currentNote) + Elapsed
     /\ Focus => timeLogs' = timeLogs]_vars

\* C16 witness: a session restarted at this instant, after the first one,
\* by a focus event or a tick; the log and data.json hold nothing of it.
C16_Witness ==
  /\ phase = "loaded"
  /\ windowFocused
  /\ currentNote # NULL
  /\ now > 0
  /\ sessionStartTime = now
  /\ timeLogs = EmptyObj
  /\ pending = <<>>
  /\ ~store.present

\* C17: after load no date key and no document key is removed from the log,
\* no stored duration decreases, and every stored duration is non-negative.
C17_LogIsAppendOnly ==
  [][phase = "loaded"
     => /\ \A k \in DOMAIN timeLogs.days :
             /\ k \in DOMAIN timeLogs'.days
             /\ \A d \in DOMAIN timeLogs.days[k] :
                  /\ d \in DOMAIN timeLogs'.days[k]
                  /\ timeLogs'.days[k][d] >= timeLogs.days[k][d]
        /\ \A k \in DOMAIN timeLogs'.days :
             \A d \in DOMAIN timeLogs'.days[k] : timeLogs'.days[k][d] >= 0]_vars

\* C17 witness: the log holds buckets for two dates, with durations folded
\* in on each.
C17_Witness ==
  /\ phase = "loaded"
  /\ Cardinality(DOMAIN timeLogs.days) = 2
  /\ Entry(timeLogs, DateKey(0), "notes/A.md") = Step
  /\ Entry(timeLogs, DateKey(DayMs), "B.md") = DayMs - 2 * Step

\* C18: a document change that carries no document ends the session in
\* progress, folding its time into the prior document's entry, leaves no
\* active document and no session; the log never has an entry keyed by none.
C18_ChangeToNoneEndsSession ==
  [][LeafChange(NULL)
     => /\ currentNote' = NULL
        /\ sessionStartTime' = 0
        /\ SessionOpen => Entry(timeLogs', Today, currentNote)
                            = Entry(timeLogs, Today, currentNote) + Elapsed
        /\ ~SessionOpen => timeLogs' = timeLogs
        /\ \A k \in DOMAIN timeLogs'.days : NULL \notin DOMAIN timeLogs'.days[k]]_vars

\* C18 witness: the change to no document has closed a session of Step ms
\* while the window stayed focused.
C18_Witness ==
  /\ phase = "loaded"
  /\ windowFocused
  /\ currentNote = NULL
  /\ sessionStartTime = 0
  /\ Len(pending) = 1
  /\ pending[1] = timeLogs
  /\ Entry(timeLogs, Today, "B.md") = Step

\* C19: a session start is set only while an active document is set.
C19_StartImpliesNote ==
  sessionStartTime # 0 => currentNote # NULL

\* C19 witness: after teardown, the document change that outlives it has set
\* a session start on a document.
C19_Witness ==
  /\ phase = "unloaded"
  /\ sessionStartTime # 0
  /\ currentNote = "B.md"
====
